---- MODULE Spec2Model ----
(***************************************************************************)
(* A model of pyhf's utils module (src/src/pyhf/utils.py): the process-wide *)
(* schema cache and load_schema, validate with its array type extension,   *)
(* digest and options_from_eqdelimstring.                                  *)
(*                                                                         *)
(* Callers are threads.  A load_schema call is four steps, one per place   *)
(* where the interpreter may switch threads: the cache lookup (line 60),   *)
(* the file read (lines 64-68), the cache store (line 69) and the cache    *)
(* read of the return statement (line 70).  validate is a load_schema call *)
(* followed by one step that builds the resolver and validator and runs    *)
(* the validation (lines 113-131).  validate reads its spec and            *)
(* allow_tensors arguments in that last step only, and the model draws     *)
(* them there: no earlier step of the call depends on them.                *)
(***************************************************************************)
EXTENDS Integers, Sequences, FiniteSets, TLC

VARIABLES
    SCHEMA_CACHE,   \* utils.py:12, a dict: declared $id -> parsed document
    array_types,    \* tensor.array_types: the array types of the backends loaded so far
    TYPE_CHECKER,   \* jsonschema.Draft6Validator.TYPE_CHECKER's predicate for 'array'
    th,             \* per thread: the call in progress, its locals, its outcome
    dg,             \* the digest call under study
    eq              \* the options_from_eqdelimstring / convert call under study

vars == <<SCHEMA_CACHE, array_types, TYPE_CHECKER, th, dg, eq>>

----------------------------------------------------------------------------
(* Bounds of the model *)

MaxLen == 1
MaxStrLen == 3
MaxOpts == 2

\* The callers: two threads of the process.
Threads == {"A", "B"}

----------------------------------------------------------------------------
(* Module constants, utils.py:13-14 *)

SCHEMA_BASE == "https://scikit-hep.org/pyhf/schemas/"

SCHEMA_VERSION == "1.0.0"

\* Python's None, and the placeholder of a local that is not bound yet.
None == "None"

----------------------------------------------------------------------------
(* The schema store: the package's schemas/<version>/<file> tree.          *)

\* The versions that are directories of the store.
StoreVersions == {"1.0.0"}

\* The schema files of a version directory.
StoreFiles == {"defs.json", "model.json"}

\* Schema names a caller may pass.  AliasName names model.json of version
\* 1.0.0 through a parent-directory step: pathlib keeps "..", the file system
\* resolves it.
AliasName == "../1.0.0/model.json"

\* The empty name: joined to a version it names the version directory itself.
DirName == ""

SchemaNames == {"defs.json", "model.json", AliasName, "nope.json", DirName}

\* Versions a caller may pass: None, the default given explicitly, and a
\* version that the store does not hold.
VersionArgs == {None, "1.0.0", "0.0.0"}

\* str(Path(a).joinpath(b)) for the relative names above: the parts joined by
\* "/", ".." kept; joining the empty name adds nothing.
PathJoin(a, b) == IF b = "" THEN a ELSE a \o "/" \o b

\* No file: what opening a path that names no file of the store finds.
NoFile == <<None, None>>

\* A variant of the store that answers every path with model.json.
FsResolveFallback(version, schema_id) == <<"1.0.0", "model.json">>

\* What a path below schemas/ names: <<version, file>> of the store, the
\* version directory <<version, DirName>>, or NoFile.  Every directory on the
\* path must exist.
FsResolve(version, schema_id) ==
    IF version \notin StoreVersions THEN NoFile
    ELSE IF schema_id = DirName THEN <<version, DirName>>
    ELSE IF schema_id = AliasName THEN <<"1.0.0", "model.json">>
    ELSE IF schema_id \in StoreFiles THEN <<version, schema_id>>
    ELSE NoFile

\* The content of a schema file: its declared $id, composed from the base
\* namespace, the version and the file name, and its constraints.  model.json
\* is a $ref to defs.json#/definitions/model; defs.json holds definitions only.
FileContent(f) ==
    [id   |-> SCHEMA_BASE \o f[1] \o "/" \o f[2],
     body |-> IF f[2] = "model.json" THEN "ref:defs.json#/definitions/model"
              ELSE "definitions"]

\* json.load: a new dict object holding the file's content.
JsonLoad(f, o) == [id |-> FileContent(f).id, body |-> FileContent(f).body, obj |-> o]

\* The structure of a document, without the identity of the dict object.
Content(d) == [id |-> d.id, body |-> d.body]

\* No document: an unbound local, or the value of a call that returns None.
NoDoc == [id |-> None, body |-> None, obj |-> 0]

\* The identifier a store file declares.
IdOf(version, file) == FileContent(<<version, file>>).id

----------------------------------------------------------------------------
(* Instances and the array type extension                                  *)

\* The array types of the tensor backends that may be loaded (numpy's ndarray).
TensorTypes == {"ndarray"}

\* What the value of the samples field may be: a native list or an array of
\* a backend.
ValueKinds == {"list"} \cup TensorTypes

\* The length of a zero-dimensional array: it has none, len() raises TypeError.
Unsized == -1

\* A model specification with one channel: whether the channel has a name,
\* and the kind and length of its samples value.  Lists have every length up
\* to MaxLen; a backend's array is zero-dimensional or has MaxLen elements.
Instances ==
    {i \in [name : {"str", "absent"}, kind : ValueKinds,
            len : {Unsized} \cup (0..MaxLen)] :
        IF i.kind = "list" THEN i.len # Unsized
        ELSE i.len \in {Unsized, MaxLen}}

\* jsonschema's own check for 'array' (is_array) and utils.py:77-85.
is_array(instance_kind) == instance_kind = "list"

\* A variant of the helper that forgets the backends' array types.
IsArrayListOnly(instance_kind, types) == instance_kind = "list"

_is_array_or_tensor(instance_kind, types) ==
    instance_kind = "list" \/ instance_kind \in types

\* TypeChecker.is_type(instance, 'array') for the function bound to 'array'.
IsArrayType(fn, instance_kind, types) ==
    IF fn = "_is_array_or_tensor" THEN _is_array_or_tensor(instance_kind, types)
    ELSE is_array(instance_kind)

\* TYPE_CHECKER.redefine('array', fn) and validators.extend: a new checker and
\* a new validator class; the class they start from keeps its checker.
Redefine(checker, fn) == fn

\* A variant in which redefine changes the checker it is called on.
BaseCheckerRedefinedInPlace(checker, fn) == fn

BaseCheckerAfterExtend(checker, fn) == checker

\* The checker of the validator class that validate instantiates, lines 120-126.
CallChecker(base, allow_tensors) ==
    IF allow_tensors THEN Redefine(base, "_is_array_or_tensor") ELSE base

----------------------------------------------------------------------------
(* Validation: jsonschema's Draft6Validator over the schemas of the store  *)

\* A constraint violation: the instance path and the keyword that failed.
Violation(path, keyword) == [path |-> path, keyword |-> keyword]

NoViolation == Violation(None, None)

\* iter_errors for defs.json#/definitions/model, in the order the validator
\* yields them: the properties of the channel first (the type of samples,
\* then minItems, which is checked for arrays only), then required.  minItems
\* takes len() of what the type checker calls an array: for a zero-dimensional
\* array that raises TypeError, which ends the iteration; the model writes it
\* as the last element, with the keyword "TypeError".
ModelErrors(instance, fn, types) ==
    IF IsArrayType(fn, instance.kind, types) /\ instance.len = Unsized
        THEN <<Violation("channels[0].samples", "TypeError")>>
    ELSE
    (IF ~IsArrayType(fn, instance.kind, types)
        THEN <<Violation("channels[0].samples", "type")>>
     ELSE IF instance.len < 1
        THEN <<Violation("channels[0].samples", "minItems")>>
     ELSE <<>>)
    \o
    (IF instance.name = "absent"
        THEN <<Violation("channels[0]", "required")>>
     ELSE <<>>)

\* The version directory of a declared identifier: the resolution scope that
\* a relative reference is joined to.
ScopeVersion(id) ==
    CHOOSE v \in StoreVersions : \E f \in StoreFiles : id = IdOf(v, f)

\* urljoin(scope, "defs.json"): the last segment of the scope replaced.
UrlJoinDefs(id) == IdOf(ScopeVersion(id), "defs.json")

\* RefResolver.resolve_from_url on the resolver's store, which starts as a
\* copy of SCHEMA_CACHE (line 117): the stored document, or, for a url that
\* is not stored, the remote document when fetching it succeeds, else no
\* document.
ResolveFromUrl(store, url, remote_ok) ==
    IF url \in DOMAIN store THEN Content(store[url])
    ELSE IF remote_ok THEN FileContent(<<ScopeVersion(url), "defs.json">>)
    ELSE Content(NoDoc)

\* An outcome of a call: what it returns, or the exception it raises with the
\* violation and the schema name the exception carries.
Outcome(kind, value, err, schema) ==
    [kind |-> kind, value |-> value, err |-> err, schema |-> schema]

NoOutcome == Outcome(None, NoDoc, NoViolation, None)

\* A variant that raises the last error found.
LastError(errors) == errors[Len(errors)]

\* Validator.validate raises the first error that iter_errors yields.
FirstError(errors) == Head(errors)

\* The try statement of validate, lines 128-131: a ValidationError becomes
\* InvalidSpecification, any other exception of the validator passes through.
Wrap(err, schema_id) ==
    IF err.keyword = "TypeError"
        THEN Outcome("TypeError", NoDoc, NoViolation, None)
    ELSE Outcome("InvalidSpecification", NoDoc, err, schema_id)

\* Lines 113-131 of validate for the loaded document `schema`.
RunValidator(schema, spec, schema_id, fn, types, store, remote_ok) ==
    IF schema.body = "definitions"
        THEN Outcome("return", NoDoc, NoViolation, None)
    ELSE LET target == ResolveFromUrl(store, UrlJoinDefs(schema.id), remote_ok)
         IN  IF target.body # "definitions"
                THEN Outcome("RefResolutionError", NoDoc, NoViolation, None)
             ELSE LET errors == ModelErrors(spec, fn, types)
                  IN  IF errors = <<>>
                         THEN Outcome("return", NoDoc, NoViolation, None)
                      ELSE Wrap(FirstError(errors), schema_id)

----------------------------------------------------------------------------
(* The callers                                                             *)

NoInstance == [name |-> None, kind |-> None, len |-> 0]

\* A thread between calls, before its first call.
IdleThread ==
    [pc |-> "idle", op |-> None, schema_id |-> None, version |-> None,
     spec |-> NoInstance, allow_tensors |-> FALSE, schema |-> NoDoc,
     out |-> NoOutcome]

\* A variant without the default: the version as the caller gave it.
VersionAsGiven(version) == version

\* Lines 57-58: the version a call uses.
EffectiveVersion(version) == IF version = None THEN SCHEMA_VERSION ELSE version

\* A variant of the key that leaves the version out.
CacheKeyWithoutVersion(version, schema_id) == SCHEMA_BASE \o schema_id

\* Line 60: the key the cache is asked for.
CacheKey(version, schema_id) ==
    SCHEMA_BASE \o PathJoin(EffectiveVersion(version), schema_id)

\* The dict objects that some variable still refers to.
LiveObjs ==
    {SCHEMA_CACHE[k].obj : k \in DOMAIN SCHEMA_CACHE}
    \cup {th[t].schema.obj : t \in Threads}
    \cup {th[t].out.value.obj : t \in Threads}

\* The identity of a newly allocated dict: one that nothing refers to.
FreshObj ==
    CHOOSE n \in 1..(Cardinality(LiveObjs) + 1) :
        n \notin LiveObjs /\ \A m \in 1..(n - 1) : m \in LiveObjs

\* A variant of the assignment that drops every other key.
DictSetOnly(d, k, v) == [x \in {k} |-> v]

\* d[k] = v on a dict.
DictSet(d, k, v) == [x \in DOMAIN d \cup {k} |-> IF x = k THEN v ELSE d[x]]

\* A thread that is not inside a call may start one.
CanCall(t) == th[t].pc \in {"idle", "done"}

\* load_schema(schema_id, version) is called.
CallLoadSchema(t, schema_id, version) ==
    /\ CanCall(t)
    /\ th' = [th EXCEPT ![t] = [IdleThread EXCEPT !.pc = "lookup",
                  !.op = "load_schema", !.schema_id = schema_id,
                  !.version = version]]
    /\ UNCHANGED <<SCHEMA_CACHE, array_types, TYPE_CHECKER, dg, eq>>

\* validate(spec, schema_id, version=version, allow_tensors=...) is called;
\* line 112 calls load_schema.
CallValidate(t, schema_id, version) ==
    /\ CanCall(t)
    /\ th' = [th EXCEPT ![t] = [IdleThread EXCEPT !.pc = "lookup",
                  !.op = "validate", !.schema_id = schema_id,
                  !.version = version]]
    /\ UNCHANGED <<SCHEMA_CACHE, array_types, TYPE_CHECKER, dg, eq>>

\* load_schema returns `doc`: the end of a load_schema call, or the value of
\* `schema` at line 112 of validate.
Returned(c, doc) ==
    IF c.op = "load_schema"
        THEN [c EXCEPT !.pc = "done", !.schema = NoDoc,
                       !.out = Outcome("return", doc, NoViolation, None)]
    ELSE [c EXCEPT !.pc = "validate", !.schema = doc]

\* Lines 59-62: the cache lookup; a hit returns the cached document.
Lookup(t) ==
    /\ th[t].pc = "lookup"
    /\ LET key == CacheKey(th[t].version, th[t].schema_id)
       IN  th' = [th EXCEPT ![t] =
                IF key \in DOMAIN SCHEMA_CACHE
                    THEN Returned(th[t], SCHEMA_CACHE[key])
                ELSE [th[t] EXCEPT !.pc = "open"]]
    /\ UNCHANGED <<SCHEMA_CACHE, array_types, TYPE_CHECKER, dg, eq>>

\* The exception of open() at line 67: for a path that names nothing, and for
\* a path that names a directory.
OpenError(f) ==
    Outcome(IF f = NoFile THEN "FileNotFoundError" ELSE "IsADirectoryError",
            NoDoc, NoViolation, None)

\* Lines 64-68: the file is opened and parsed; open() raises out of
\* load_schema and out of validate, whose try block starts after line 112.
Open(t) ==
    /\ th[t].pc = "open"
    /\ LET f == FsResolve(EffectiveVersion(th[t].version), th[t].schema_id)
       IN  th' = [th EXCEPT ![t] =
                IF f = NoFile \/ f[2] = DirName
                    THEN [th[t] EXCEPT !.pc = "done", !.out = OpenError(f)]
                ELSE [th[t] EXCEPT !.pc = "store",
                                   !.schema = JsonLoad(f, FreshObj)]]
    /\ UNCHANGED <<SCHEMA_CACHE, array_types, TYPE_CHECKER, dg, eq>>

\* A variant that files every document under the key of defs.json.
StoreKeyDefs(c) == IdOf(SCHEMA_VERSION, "defs.json")

\* A variant that files the document under the key that was looked up.
StoreKeyRequested(c) == CacheKey(c.version, c.schema_id)

\* The key of lines 69 and 70: the document's declared $id.
StoreKey(c) == c.schema.id

\* Line 69: SCHEMA_CACHE[schema['$id']] = schema.
Store(t) ==
    /\ th[t].pc = "store"
    /\ SCHEMA_CACHE' = DictSet(SCHEMA_CACHE, StoreKey(th[t]), th[t].schema)
    /\ th' = [th EXCEPT ![t].pc = "ret"]
    /\ UNCHANGED <<array_types, TYPE_CHECKER, dg, eq>>

\* Line 70: return SCHEMA_CACHE[schema['$id']].
Ret(t) ==
    /\ th[t].pc = "ret"
    /\ th' = [th EXCEPT ![t] = Returned(th[t], SCHEMA_CACHE[StoreKey(th[t])])]
    /\ UNCHANGED <<SCHEMA_CACHE, array_types, TYPE_CHECKER, dg, eq>>

\* Lines 113-131: the resolver takes a copy of the cache, the validator class
\* is chosen by allow_tensors and the instance is validated.  Whether a
\* reference to a document that is not in the resolver's store can be fetched
\* is up to the network.
Validate(t, spec, allow_tensors) ==
    /\ th[t].pc = "validate"
    /\ \E remote_ok \in BOOLEAN :
          th' = [th EXCEPT ![t] = [th[t] EXCEPT
                   !.pc = "done", !.schema = NoDoc,
                   !.spec = spec, !.allow_tensors = allow_tensors,
                   !.out = RunValidator(th[t].schema, spec, th[t].schema_id,
                              CallChecker(TYPE_CHECKER, allow_tensors),
                              array_types, SCHEMA_CACHE, remote_ok)]]
    /\ TYPE_CHECKER' =
          IF allow_tensors
              THEN BaseCheckerAfterExtend(TYPE_CHECKER, "_is_array_or_tensor")
          ELSE TYPE_CHECKER
    /\ UNCHANGED <<SCHEMA_CACHE, array_types, dg, eq>>

\* A tensor backend is loaded: its array type joins tensor.array_types.
LoadBackend(ty) ==
    /\ ty \notin array_types
    /\ array_types' = array_types \cup {ty}
    /\ UNCHANGED <<SCHEMA_CACHE, TYPE_CHECKER, th, dg, eq>>

----------------------------------------------------------------------------
(* digest, lines 151-191                                                   *)

\* Values a dict under digest may hold: a number, a string with a lone
\* surrogate (json.dumps writes it, utf8 cannot encode it), a set (not
\* JSON-serializable), and the dict itself (a circular reference).
DigestValues == {"1.0", "surrogate", "set", "self"}

DigestKeys == {"a", "b"}

\* A dict in insertion order: a sequence of <<key, value>> with distinct keys.
DigestObjects ==
    {<<>>}
    \cup {<<<<k, v>>>> : k \in DigestKeys, v \in DigestValues}
    \cup {<<<<k, v1>>, <<CHOOSE k2 \in DigestKeys : k2 # k, v2>>>> :
            k \in DigestKeys, v1 \in DigestValues, v2 \in DigestValues}

\* Algorithm names a caller may pass: hash constructors of hashlib, an
\* extendable-output hash, attributes of hashlib that are no hash algorithm,
\* and a name hashlib does not have.
AlgorithmNames ==
    {"sha256", "md5", "shake_128", "algorithms_available", "new", "nosuch"}

\* The hash algorithms among them.
HashAlgorithms == {"sha256", "md5", "shake_128"}

\* getattr(hashlib, name): what the attribute is, "AttributeError" if none.
HashlibGetattr(name) ==
    CASE name \in {"sha256", "md5"} -> "hash_constructor"
      [] name = "shake_128" -> "xof_constructor"
      [] name = "algorithms_available" -> "set"
      [] name = "new" -> "function"
      [] OTHER -> "AttributeError"

\* sort_keys=True: the items in key order.
SortKeys(obj) ==
    IF Len(obj) = 2 /\ obj[1][1] = "b" THEN <<obj[2], obj[1]>> ELSE obj

\* json.dumps(obj, sort_keys=True, ensure_ascii=False).encode('utf8'): the
\* canonical text, or the exception of the first item, in key order, that
\* cannot be written; the text cannot be encoded if it holds a surrogate.
Stringify(obj) ==
    LET items == SortKeys(obj)
        bad == {i \in 1..Len(items) : items[i][2] \in {"set", "self"}}
        first == CHOOSE i \in bad : \A j \in bad : i <= j
    IN  IF bad # {}
            THEN [kind |-> IF items[first][2] = "set" THEN "TypeError"
                           ELSE "ValueError",
                  text |-> <<>>]
        ELSE IF \E i \in 1..Len(items) : items[i][2] = "surrogate"
            THEN [kind |-> "UnicodeEncodeError", text |-> <<>>]
        ELSE [kind |-> "bytes", text |-> items]

\* A result of digest: the hex digest, or the class of the exception raised.
DigestOut(kind, hex) == [kind |-> kind, hex |-> hex]

\* hash_alg(stringified).hexdigest(), line 191, for the attribute found.
HashCall(attr, algorithm, text) ==
    IF attr = "hash_constructor"
        THEN DigestOut("return", <<algorithm, text>>)
    ELSE DigestOut("TypeError", <<>>)

\* digest(obj, algorithm): lines 179-184, then 185-190, then 191.
digest(obj, algorithm) ==
    LET stringified == Stringify(obj)
        hash_alg == HashlibGetattr(algorithm)
    IN  IF stringified.kind = "TypeError" THEN DigestOut("ValueError", <<>>)
        ELSE IF stringified.kind # "bytes" THEN DigestOut(stringified.kind, <<>>)
        ELSE IF hash_alg = "AttributeError" THEN DigestOut("ValueError", <<>>)
        ELSE HashCall(hash_alg, algorithm, stringified.text)

IdleDigest ==
    [pc |-> "idle", obj |-> <<>>, algorithm |-> None, out |-> DigestOut(None, <<>>)]

\* A caller runs digest on the object and algorithm name it holds.
DigestCall ==
    /\ dg.pc = "call"
    /\ dg' = [dg EXCEPT !.pc = "done", !.out = digest(dg.obj, dg.algorithm)]
    /\ UNCHANGED <<SCHEMA_CACHE, array_types, TYPE_CHECKER, th, eq>>

----------------------------------------------------------------------------
(* options_from_eqdelimstring and EqDelimStringParamType, lines 134-148     *)

\* Strings are sequences of characters over a two-letter alphabet.
Chars == {"a", "="}

RECURSIVE StringsOfLen(_)
StringsOfLen(n) ==
    IF n = 0 THEN {<<>>}
    ELSE {Append(s, c) : s \in StringsOfLen(n - 1), c \in Chars}

Strings == UNION {StringsOfLen(n) : n \in 0..MaxStrLen}

RECURSIVE ListsOfLen(_)
ListsOfLen(n) ==
    IF n = 0 THEN {<<>>}
    ELSE {Append(l, s) : l \in ListsOfLen(n - 1), s \in Strings}

OptLists == UNION {ListsOfLen(n) : n \in 0..MaxOpts}

\* str.split('=', 1): the string cut at its first '=', or the string alone.
RECURSIVE SplitFrom(_, _)
SplitFrom(s, i) ==
    IF i > Len(s) THEN <<s>>
    ELSE IF s[i] = "=" THEN <<SubSeq(s, 1, i - 1), SubSeq(s, i + 1, Len(s))>>
    ELSE SplitFrom(s, i + 1)

\* A variant without maxsplit: str.split('='), of which lines 135-137 would
\* read parts [0] and [1].
SplitEvery(s) ==
    LET r == SplitFrom(s, 1)
    IN  IF Len(r) < 2 THEN r ELSE <<r[1], SplitFrom(r[2], 1)[1]>>

Split1(s) == SplitFrom(s, 1)

\* The line the generator of lines 135-137 makes of one option:
\* f"{opt.split('=', 1)[0]}: {opt.split('=', 1)[1]}".
OptLine(opt) == Split1(opt)[1] \o <<":", " ">> \o Split1(opt)[2]

\* '\n'.join of the lines.
RECURSIVE JoinLines(_)
JoinLines(lines) ==
    IF lines = <<>> THEN <<>>
    ELSE IF Len(lines) = 1 THEN lines[1]
    ELSE lines[1] \o <<"\n">> \o JoinLines(Tail(lines))

\* A result: what yaml.safe_load is given, or the exception raised.
EqOut(kind, document) == [kind |-> kind, document |-> document]

\* options_from_eqdelimstring(opts): the subscript [1] raises IndexError for
\* an option that split leaves whole; otherwise the document goes to
\* yaml.safe_load, whose reading of it is the library's.
options_from_eqdelimstring(opts) ==
    IF \E i \in 1..Len(opts) : Len(Split1(opts[i])) < 2
        THEN EqOut("IndexError", <<>>)
    ELSE EqOut("yaml.safe_load",
               JoinLines([i \in 1..Len(opts) |-> OptLine(opts[i])]))

\* EqDelimStringParamType.convert(value): IndexError becomes self.fail, which
\* raises click's BadParameter.
convert(value) ==
    LET r == options_from_eqdelimstring(<<value>>)
    IN  IF r.kind = "IndexError" THEN EqOut("BadParameter", <<>>) ELSE r

IdleEq == [pc |-> "idle", fn |-> None, opts |-> <<>>, out |-> EqOut(None, <<>>)]

\* A caller runs options_from_eqdelimstring on the list it holds.
OptionsCall ==
    /\ eq.pc = "call"
    /\ eq.fn = "options_from_eqdelimstring"
    /\ eq' = [eq EXCEPT !.pc = "done", !.out = options_from_eqdelimstring(eq.opts)]
    /\ UNCHANGED <<SCHEMA_CACHE, array_types, TYPE_CHECKER, th, dg>>

\* click converts a command line value.
ConvertCall ==
    /\ eq.pc = "call"
    /\ eq.fn = "convert"
    /\ eq' = [eq EXCEPT !.pc = "done", !.out = convert(eq.opts[1])]
    /\ UNCHANGED <<SCHEMA_CACHE, array_types, TYPE_CHECKER, th, dg>>

----------------------------------------------------------------------------
(* The specifications                                                      *)

\* A variant of the import without line 74: the empty dict of line 12.
EmptyCache == [k \in {} |-> NoDoc]

\* Line 12 and line 74: the cache after the module is imported holds
\* defs.json of the default version, loaded by load_schema('defs.json').
ImportedCache ==
    LET schema == JsonLoad(<<SCHEMA_VERSION, "defs.json">>, 1)
    IN  [k \in {schema.id} |-> schema]

InitShared ==
    /\ SCHEMA_CACHE = ImportedCache
    /\ array_types = {}
    /\ TYPE_CHECKER = "is_array"
    /\ th = [t \in Threads |-> IdleThread]

Init ==
    /\ InitShared
    /\ dg = IdleDigest
    /\ eq = IdleEq

Next ==
    \/ \E t \in Threads, schema_id \in SchemaNames, version \in VersionArgs :
          CallLoadSchema(t, schema_id, version)
    \/ \E t \in Threads, schema_id \in SchemaNames, version \in VersionArgs :
          CallValidate(t, schema_id, version)
    \/ \E t \in Threads : Lookup(t)
    \/ \E t \in Threads : Open(t)
    \/ \E t \in Threads : Store(t)
    \/ \E t \in Threads : Ret(t)
    \/ \E t \in Threads, spec \in Instances, allow_tensors \in BOOLEAN :
          Validate(t, spec, allow_tensors)
    \/ \E ty \in TensorTypes : LoadBackend(ty)

Spec == Init /\ [][Next]_vars

\* digest applied to every object and algorithm name of the bounded sets.
InitDigest ==
    /\ InitShared
    /\ eq = IdleEq
    /\ \E obj \in DigestObjects, algorithm \in AlgorithmNames :
          dg = [IdleDigest EXCEPT !.pc = "call", !.obj = obj,
                                  !.algorithm = algorithm]

NextDigest == DigestCall

SpecDigest == InitDigest /\ [][NextDigest]_vars

\* The option parser applied to every list, and convert to every string.
InitEq ==
    /\ InitShared
    /\ dg = IdleDigest
    /\ \/ \E opts \in OptLists :
             eq = [IdleEq EXCEPT !.pc = "call",
                                 !.fn = "options_from_eqdelimstring",
                                 !.opts = opts]
       \/ \E value \in Strings :
             eq = [IdleEq EXCEPT !.pc = "call", !.fn = "convert",
                                 !.opts = <<value>>]

NextEq == OptionsCall \/ ConvertCall

SpecEq == InitEq /\ [][NextEq]_vars

----------------------------------------------------------------------------
(* What the schemas require, stated on its own                             *)

\* The store holds a schema file for the pair.
InStore(version, schema_id) ==
    /\ EffectiveVersion(version) \in StoreVersions
    /\ schema_id \in StoreFiles \cup {AliasName}

\* The requested schema is the model schema (the other, defs.json, holds
\* definitions only and constrains nothing).
IsModelSchema(version, schema_id) ==
    FsResolve(EffectiveVersion(version), schema_id)[2] = "model.json"

\* A value counts as an array for a call: a list, or, when the call allows
\* tensors, an array of a backend in `types`.
CountsAsArray(kind, allow_tensors, types) ==
    kind = "list" \/ (allow_tensors /\ kind \in types)

\* Every violation of the model schema by an instance: channels[0] needs a
\* name, channels[0].samples must be an array, and a non-empty one (which an
\* array without a length is not).
InstanceViolations(spec, allow_tensors, types) ==
    (IF spec.name = "absent"
        THEN {Violation("channels[0]", "required")} ELSE {})
    \cup (IF ~CountsAsArray(spec.kind, allow_tensors, types)
             THEN {Violation("channels[0].samples", "type")} ELSE {})
    \cup (IF CountsAsArray(spec.kind, allow_tensors, types) /\ spec.len < 1
             THEN {Violation("channels[0].samples", "minItems")} ELSE {})

\* The violations of the schema a call names.
SchemaViolations(c, types) ==
    IF IsModelSchema(c.version, c.schema_id)
        THEN InstanceViolations(c.spec, c.allow_tensors, types)
    ELSE {}

\* Thread t's validate call runs its validator in this step.
Validated(t) == th[t].pc = "validate" /\ th'[t].pc = "done"

\* Thread t has completed a call of `op`.
Done(t, op) == th[t].pc = "done" /\ th[t].op = op

\* The violations an InvalidSpecification reports: the one error it wraps.
Reported(out) == {out.err}

----------------------------------------------------------------------------
(* Claims                                                                  *)

\* C1: validate on a schema that exists returns None when the instance
\* satisfies the schema and raises InvalidSpecification, carrying a violation
\* of the instance and the schema_id, when it does not; there is no third
\* outcome and no violation is swallowed.
C1_TwoOutcomes ==
    [][\A t \in Threads : Validated(t) =>
          LET c == th'[t]
              V == SchemaViolations(c, array_types)
          IN  /\ V = {} => c.out = Outcome("return", NoDoc, NoViolation, None)
              /\ V # {} => /\ c.out.kind = "InvalidSpecification"
                           /\ c.out.err \in V
                           /\ c.out.schema = c.schema_id]_vars

\* C2: a load_schema or validate call for a (version, name) pair that the
\* store does not hold ends with FileNotFoundError, and never gets past the
\* file read.
C2_MissingIsNotFound ==
    \A t \in Threads :
        ~InStore(th[t].version, th[t].schema_id) /\ th[t].op # None =>
            /\ th[t].pc \in {"lookup", "open", "done"}
            /\ th[t].pc = "done" => th[t].out = OpenError(NoFile)

\* C3: a document stored in SCHEMA_CACHE under an identifier is never
\* replaced and never changes.  Stated for the steps of runs in which thread
\* B makes no call: the calls of a single caller, one after the other.
C3_CacheImmutable ==
    [][(th["B"].pc = "idle" /\ th'["B"].pc = "idle") =>
          \A k \in DOMAIN SCHEMA_CACHE :
              k \in DOMAIN SCHEMA_CACHE' /\ SCHEMA_CACHE'[k] = SCHEMA_CACHE[k]]_vars

\* C4: when two first resolutions of an identifier run concurrently (each
\* asked the cache for the identifier and missed), the store of line 69
\* finds the identifier absent: the second caller does not insert again.
C4_InsertIfAbsent ==
    [][\A t \in Threads :
          (/\ th[t].pc = "store" /\ th'[t].pc = "ret"
           /\ CacheKey(th[t].version, th[t].schema_id) = StoreKey(th[t]))
          => StoreKey(th[t]) \notin DOMAIN SCHEMA_CACHE]_vars

\* C5: two load_schema calls with the same arguments return structurally
\* identical documents.
C5_Idempotent ==
    \A t, u \in Threads :
        (/\ Done(t, "load_schema") /\ Done(u, "load_schema")
         /\ th[t].schema_id = th[u].schema_id /\ th[t].version = th[u].version
         /\ th[t].out.kind = "return" /\ th[u].out.kind = "return")
        => Content(th[t].out.value) = Content(th[u].out.value)

\* C5 witness: two calls with the same arguments have returned two distinct
\* dict objects (the second call parsed the file again).
C5_Witness ==
    \E t, u \in Threads :
        /\ Done(t, "load_schema") /\ Done(u, "load_schema")
        /\ th[t].schema_id = th[u].schema_id /\ th[t].version = th[u].version
        /\ th[t].out.kind = "return" /\ th[u].out.kind = "return"
        /\ th[t].out.value.obj # th[u].out.value.obj

\* C6: for an instance that is valid but for the type of its array value, a
\* native list is accepted under both settings; an array of a registered
\* backend type is accepted with allow_tensors=True and fails with a type
\* violation with allow_tensors=False.
C6_ExtendedArrays ==
    [][\A t \in Threads :
          LET c == th'[t]
          IN  (/\ Validated(t) /\ IsModelSchema(c.version, c.schema_id)
               /\ c.spec.name = "str" /\ c.spec.len >= 1)
              => /\ c.spec.kind = "list" => c.out.kind = "return"
                 /\ (c.spec.kind \in array_types /\ c.allow_tensors)
                       => c.out.kind = "return"
                 /\ (c.spec.kind \in array_types /\ ~c.allow_tensors)
                       => /\ c.out.kind = "InvalidSpecification"
                          /\ c.out.err =
                                Violation("channels[0].samples", "type")]_vars

\* C6 witness: the same instance with an ndarray has been accepted by a call
\* that allows tensors and rejected by one that does not.
C6_Witness ==
    \E t, u \in Threads :
        /\ Done(t, "validate") /\ Done(u, "validate")
        /\ th[t].spec = th[u].spec /\ th[t].spec.kind = "ndarray"
        /\ th[t].allow_tensors /\ th[t].out.kind = "return"
        /\ ~th[u].allow_tensors /\ th[u].out.kind = "InvalidSpecification"

SameValidate(t, u) ==
    /\ Done(t, "validate") /\ Done(u, "validate")
    /\ th[t].schema_id = th[u].schema_id /\ th[t].version = th[u].version
    /\ th[t].spec = th[u].spec /\ th[t].allow_tensors = th[u].allow_tensors

\* C8, as claimed: two validate calls with the same arguments, in whatever
\* states they run, have the same outcome.
C8_Deterministic ==
    \A t, u \in Threads : SameValidate(t, u) => th[t].out.kind = th[u].out.kind

\* C8, amended: they have the same outcome when allow_tensors is False or the
\* instance holds no array of a backend type.
C8_DeterministicButTensors ==
    \A t, u \in Threads :
        (SameValidate(t, u)
         /\ (~th[t].allow_tensors \/ th[t].spec.kind \notin TensorTypes))
        => th[t].out = th[u].out

\* C8 witness: two calls with the same arguments and allow_tensors=False on
\* an instance holding an ndarray, one before and one after the backend was
\* loaded and a call with allow_tensors=True ran.
C8_Witness ==
    \E t, u \in Threads :
        /\ t # u /\ SameValidate(t, u)
        /\ ~th[t].allow_tensors /\ th[t].spec.kind = "ndarray"
        /\ IsModelSchema(th[t].version, th[t].schema_id)
        /\ array_types = {"ndarray"}

\* The exception classes that are ValueError or a subclass of it.
ValueErrors == {"ValueError", "UnicodeEncodeError"}

\* json.dumps can write the object.
JsonSerializable(obj) ==
    \A i \in 1..Len(obj) : obj[i][2] \notin {"set", "self"}

\* C9: digest raises ValueError for every object that is not
\* JSON-serializable and for every algorithm name that is no hash algorithm
\* of hashlib; it neither returns nor raises another error.
C9_ValueErrorOnly ==
    (/\ dg.pc = "done"
     /\ (~JsonSerializable(dg.obj) \/ dg.algorithm \notin HashAlgorithms))
    => dg.out.kind \in ValueErrors

\* The options lack a delimiter somewhere.
LacksDelimiter(opts) ==
    \E i \in 1..Len(opts) : \A p \in 1..Len(opts[i]) : opts[i][p] # "="

\* The line of an option that has a delimiter: the text before its first
\* '=', then ": ", then all the text after it.
ExpectedLine(opt) ==
    LET p == CHOOSE q \in 1..Len(opt) :
                 opt[q] = "=" /\ \A r \in 1..(q - 1) : opt[r] # "="
    IN  SubSeq(opt, 1, p - 1) \o <<":", " ">> \o SubSeq(opt, p + 1, Len(opt))

\* C10: the parser fails with IndexError (a parameter failure in convert)
\* when an entry has no '='; otherwise every entry is cut at its first '='
\* only, the value keeping any further '='.
C10_SplitAtFirst ==
    eq.pc = "done" =>
        IF LacksDelimiter(eq.opts)
            THEN eq.out = EqOut(IF eq.fn = "convert" THEN "BadParameter"
                                ELSE "IndexError", <<>>)
        ELSE eq.out = EqOut("yaml.safe_load",
                 JoinLines([i \in 1..Len(eq.opts) |-> ExpectedLine(eq.opts[i])]))

\* C10 witness: an option whose value holds an '=' has been parsed.
C10_Witness ==
    /\ eq.pc = "done" /\ eq.out.kind = "yaml.safe_load"
    /\ eq.opts = <<<<"a", "=", "=">>, <<"a", "=", "a">>>>
    /\ eq.out.document = <<"a", ":", " ", "=", "\n", "a", ":", " ", "a">>

\* The identifier that the store file of a call declares.
DeclaredId(c) ==
    LET f == FsResolve(EffectiveVersion(c.version), c.schema_id)
    IN  IdOf(f[1], f[2])

\* The document a call hands back: the value of load_schema, which validate
\* binds to `schema`.
Handed(c) == IF c.op = "load_schema" THEN c.out.value ELSE c.schema

\* C11: on a cache miss load_schema stores the parsed file of (version, name)
\* under the identifier the file declares, whatever string was requested,
\* adds no other key and changes no other entry, and returns the document
\* then stored under the declared identifier.
C11_MissStoresUnderDeclaredId ==
    [][\A t \in Threads :
          /\ (th[t].pc = "store" /\ th'[t].pc = "ret") =>
                LET id == DeclaredId(th[t])
                    f  == FsResolve(EffectiveVersion(th[t].version),
                                    th[t].schema_id)
                IN  /\ Content(th[t].schema) = FileContent(f)
                    /\ DOMAIN SCHEMA_CACHE' = DOMAIN SCHEMA_CACHE \cup {id}
                    /\ SCHEMA_CACHE'[id] = th[t].schema
                    /\ \A k \in DOMAIN SCHEMA_CACHE \ {id} :
                          SCHEMA_CACHE'[k] = SCHEMA_CACHE[k]
          /\ (th[t].pc = "ret" /\ th'[t].pc # "ret") =>
                /\ DeclaredId(th[t]) \in DOMAIN SCHEMA_CACHE
                /\ Handed(th'[t]) = SCHEMA_CACHE[DeclaredId(th[t])]]_vars

\* C11 witness: a load through the alias name has returned the document that
\* the cache holds under model.json's declared identifier, and the requested
\* string is no key.
C11_Witness ==
    \E t \in Threads :
        /\ Done(t, "load_schema") /\ th[t].schema_id = AliasName
        /\ th[t].out.kind = "return"
        /\ th[t].out.value = SCHEMA_CACHE[IdOf("1.0.0", "model.json")]
        /\ CacheKey(th[t].version, AliasName) \notin DOMAIN SCHEMA_CACHE

\* The identifier composed from the base namespace, the version of a call
\* and its schema name.
ComposedId(c) ==
    SCHEMA_BASE \o PathJoin(IF c.version = None THEN SCHEMA_VERSION
                            ELSE c.version, c.schema_id)

\* C12: when the composed identifier of a call is a key of SCHEMA_CACHE, the
\* lookup ends load_schema at once: the call hands back the cached document,
\* never opens a file and leaves SCHEMA_CACHE as it is.
C12_HitReturnsCached ==
    [][\A t \in Threads :
          (/\ th[t].pc = "lookup" /\ th'[t].pc # "lookup"
           /\ ComposedId(th[t]) \in DOMAIN SCHEMA_CACHE)
          => /\ th'[t].pc = (IF th[t].op = "load_schema" THEN "done"
                             ELSE "validate")
             /\ Handed(th'[t]) = SCHEMA_CACHE[ComposedId(th[t])]
             /\ SCHEMA_CACHE' = SCHEMA_CACHE]_vars

\* C12 witness: load_schema('defs.json', version='1.0.0') has returned the
\* dict object that the import stored, which only the cache can supply, and
\* the cache still holds it.
C12_Witness ==
    \E t \in Threads :
        /\ Done(t, "load_schema")
        /\ th[t].schema_id = "defs.json" /\ th[t].version = "1.0.0"
        /\ th[t].out.kind = "return" /\ th[t].out.value.obj = 1
        /\ SCHEMA_CACHE[IdOf("1.0.0", "defs.json")] = th[t].out.value

\* C13: no eviction.  Whatever step is taken, by a call that succeeds or one
\* that fails, every identifier that is a key of SCHEMA_CACHE stays a key.
C13_NoEviction ==
    [][DOMAIN SCHEMA_CACHE \subseteq DOMAIN SCHEMA_CACHE']_vars

\* C13 witness: after a load_schema call that failed and a validate call that
\* raised, the cache holds the import's key and the key a call added.
C13_Witness ==
    \E t, u \in Threads :
        /\ Done(t, "load_schema") /\ th[t].out.kind = "FileNotFoundError"
        /\ Done(u, "validate") /\ th[u].out.kind = "InvalidSpecification"
        /\ DOMAIN SCHEMA_CACHE =
              {IdOf("1.0.0", "defs.json"), IdOf("1.0.0", "model.json")}

\* The identifier of the base definitions schema of the default version.
DefsId == IdOf(SCHEMA_VERSION, "defs.json")

\* C14: the base definitions schema is cached when the module is imported.
\* In every state, so in every state in which validate can be called or is
\* running, SCHEMA_CACHE holds the content of defs.json of the default version
\* under its identifier: no validate call is the first to load it.
C14_DefsCachedEagerly ==
    /\ DefsId \in DOMAIN SCHEMA_CACHE
    /\ Content(SCHEMA_CACHE[DefsId]) = FileContent(<<SCHEMA_VERSION, "defs.json">>)

\* C14 witness: a validate call against model.json, whose $ref goes to
\* defs.json, has returned while the cache still holds the dict object that
\* the import stored.
C14_Witness ==
    \E t \in Threads :
        /\ Done(t, "validate") /\ IsModelSchema(th[t].version, th[t].schema_id)
        /\ th[t].out.kind = "return"
        /\ DefsId \in DOMAIN SCHEMA_CACHE /\ SCHEMA_CACHE[DefsId].obj = 1

\* The outcome of a call that found the samples value to be no array.
RejectedAsNonArray(out) ==
    /\ out.kind = "InvalidSpecification"
    /\ out.err = Violation("channels[0].samples", "type")

\* C15: per-call policy.  A validate call takes a value of a registered
\* non-list array type for an array exactly when its own allow_tensors is
\* True; a call with allow_tensors=False rejects every non-list array value,
\* whatever calls ran or run beside it; and the type checker of the base
\* validator class is never changed.
C15_PolicyPerCall ==
    [][/\ TYPE_CHECKER' = "is_array"
       /\ \A t \in Threads :
             LET c == th'[t]
             IN  (/\ Validated(t) /\ IsModelSchema(c.version, c.schema_id)
                  /\ c.spec.kind \in TensorTypes)
                 => /\ ~c.allow_tensors => RejectedAsNonArray(c.out)
                    /\ c.spec.kind \in array_types =>
                          (RejectedAsNonArray(c.out) <=> ~c.allow_tensors)]_vars

\* C15 witness: a call with allow_tensors=True has accepted an ndarray,
\* another call with allow_tensors=False has rejected an ndarray as no array,
\* and the base checker is jsonschema's own.
C15_Witness ==
    \E t, u \in Threads :
        /\ Done(t, "validate") /\ th[t].allow_tensors
        /\ th[t].spec.kind = "ndarray" /\ th[t].out.kind = "return"
        /\ Done(u, "validate") /\ ~th[u].allow_tensors
        /\ th[u].spec.kind = "ndarray" /\ RejectedAsNonArray(th[u].out)
        /\ th[u].spec.name = "absent"
        /\ TYPE_CHECKER = "is_array"

ValidateStep(t) ==
    /\ th[t].op = "validate" /\ th[t].pc # "done"
    /\ th'[t] # th[t]

\* C17: frame of validate.  No step of a validate call changes or replaces
\* an entry that SCHEMA_CACHE already holds, and the instance the call has
\* validated is the one it was given; the call can only add entries.  Stated
\* for the steps of runs in which thread B makes no call.
C17_ValidateFrame ==
    [][\A t \in Threads :
          (ValidateStep(t) /\ th["B"].pc = "idle" /\ th'["B"].pc = "idle")
          => /\ \A k \in DOMAIN SCHEMA_CACHE :
                   /\ k \in DOMAIN SCHEMA_CACHE'
                   /\ SCHEMA_CACHE'[k] = SCHEMA_CACHE[k]
             /\ th[t].pc # "validate" => th'[t].spec = th[t].spec]_vars

\* C18: a call with no version does in each of its steps what a call with
\* version '1.0.0' does: it looks up the key composed with 1.0.0, reads the
\* file of directory 1.0.0, stores and returns the same document, and leaves
\* the cache in the same state.  Stated for both kinds of call by what the
\* step of a call for version 1.0.0 is.
C18_DefaultVersion ==
    [][\A t \in Threads :
          (th[t].version \in {None, "1.0.0"} /\ th'[t] # th[t])
          => LET c   == th[t]
                 key == SCHEMA_BASE \o PathJoin("1.0.0", c.schema_id)
                 f   == FsResolve("1.0.0", c.schema_id)
             IN  /\ c.pc = "lookup" =>
                       /\ SCHEMA_CACHE' = SCHEMA_CACHE
                       /\ IF key \in DOMAIN SCHEMA_CACHE
                             THEN /\ th'[t].pc \in {"done", "validate"}
                                  /\ Handed(th'[t]) = SCHEMA_CACHE[key]
                          ELSE th'[t].pc = "open"
                 /\ c.pc = "open" =>
                       /\ SCHEMA_CACHE' = SCHEMA_CACHE
                       /\ IF f \in {"1.0.0"} \X StoreFiles
                             THEN /\ th'[t].pc = "store"
                                  /\ Content(th'[t].schema) = FileContent(f)
                          ELSE /\ th'[t].pc = "done"
                               /\ th'[t].out = OpenError(f)
                 /\ c.pc = "store" =>
                       SCHEMA_CACHE' =
                           DictSet(SCHEMA_CACHE, IdOf(f[1], f[2]), c.schema)
                 /\ c.pc = "ret" =>
                       /\ SCHEMA_CACHE' = SCHEMA_CACHE
                       /\ Handed(th'[t]) = SCHEMA_CACHE[IdOf(f[1], f[2])]]_vars

\* C18 witness: load_schema('model.json') and
\* load_schema('model.json', version='1.0.0') have returned the same dict
\* object, the one in the cache: one of them missed and stored it, the other
\* found it under the same key.
C18_Witness ==
    \E t, u \in Threads :
        /\ Done(t, "load_schema") /\ Done(u, "load_schema")
        /\ th[t].schema_id = "model.json" /\ th[u].schema_id = "model.json"
        /\ th[t].version = None /\ th[u].version = "1.0.0"
        /\ th[t].out.kind = "return" /\ th[u].out = th[t].out
        /\ SCHEMA_CACHE[IdOf("1.0.0", "model.json")] = th[t].out.value

\* C19: when a load_schema call has returned, the identifier composed from
\* the base namespace, its version and its schema name is a key of
\* SCHEMA_CACHE (so that the next call with these arguments hits).
C19_SuccessThenHit ==
    \A t \in Threads :
        (Done(t, "load_schema") /\ th[t].out.kind = "return")
        => ComposedId(th[t]) \in DOMAIN SCHEMA_CACHE

\* A cache entry is a fully loaded document: the whole content of a store
\* file, under the identifier the file declares.
FullyLoaded(cache, k) ==
    \E v \in StoreVersions, f \in StoreFiles :
        k = IdOf(v, f) /\ Content(cache[k]) = FileContent(<<v, f>>)

\* C20: no step of a load_schema or validate call for a pair that the store
\* does not hold changes SCHEMA_CACHE, so the call fails leaving the cache as
\* it found it; and when a validate call raises InvalidSpecification every
\* entry of the cache is a fully loaded document.
C20_FailuresLeaveCache ==
    [][\A t \in Threads :
          /\ (/\ th'[t] # th[t] /\ th'[t].op # None
               /\ ~InStore(th'[t].version, th'[t].schema_id))
             => SCHEMA_CACHE' = SCHEMA_CACHE
          /\ (Validated(t) /\ th'[t].out.kind = "InvalidSpecification")
             => \A k \in DOMAIN SCHEMA_CACHE' : FullyLoaded(SCHEMA_CACHE', k)]_vars

\* C20 witness: a validate call for a version the store lacks has failed
\* with FileNotFoundError, another has raised InvalidSpecification, and the
\* cache holds the two documents that were loaded.
C20_Witness ==
    \E t, u \in Threads :
        /\ Done(t, "validate") /\ th[t].version = "0.0.0"
        /\ th[t].out.kind = "FileNotFoundError"
        /\ Done(u, "validate") /\ th[u].out.kind = "InvalidSpecification"
        /\ th[u].out.err = Violation("channels[0].samples", "minItems")
        /\ DOMAIN SCHEMA_CACHE = {DefsId, IdOf("1.0.0", "model.json")}
        /\ \A k \in DOMAIN SCHEMA_CACHE : FullyLoaded(SCHEMA_CACHE, k)

====
